---- MODULE Spec2Model ----
(***************************************************************************)
(* A model of dynamo/tools/dynamics.py: the dynamics() driver (gene        *)
(* filter, model / assumption / estimation-method resolution, sanity       *)
(* check, steady-state or kinetic estimation per group) and                *)
(* kinetic_model() (layer selection, model registry, per-gene fit loop).   *)
(*                                                                         *)
(* Collaborators that live outside the file (moments, ss_estimation, the   *)
(* estimator classes, the optimiser) are modelled by their effect on the   *)
(* caller only: they are invoked, they return one of the outcomes the      *)
(* caller can observe, or they raise.                                      *)
(***************************************************************************)
EXTENDS Integers, Sequences, FiniteSets, TLC

\* ------------------------------------------------------------------------
\* Bounds of the model
\* ------------------------------------------------------------------------
\* genes handed to a direct call of kinetic_model
MaxGenes == 2
\* largest rough alpha estimate (guestimate_alpha) of a gene
MaxAlpha0 == 2
\* groups of cells a dynamics run estimates separately
MaxGroups == 2

\* ------------------------------------------------------------------------
\* Strings and Python helpers
\* ------------------------------------------------------------------------
\* str.lower() on the strings the model uses
Lower(s) ==
    CASE s = "Auto" -> "auto"
      [] s = "Mixture" -> "mixture"
      [] OTHER -> s

\* str.startswith('mixture'): case-sensitive
StartsWithMixture(s) ==
    s \in {"mixture", "mixture_deterministic_stochastic", "mixture_stochastic_stochastic"}

\* A Python dict is a sequence of <<key, value>> pairs in insertion order.
DictKeys(d) == [i \in 1..Len(d) |-> d[i][1]]
DictValues(d) == [i \in 1..Len(d) |-> d[i][2]]
DictHas(d, k) == \E i \in 1..Len(d) : d[i][1] = k
DictGet(d, k) == d[CHOOSE i \in 1..Len(d) : d[i][1] = k][2]

\* dict.update({k: v}): an existing key keeps its position, a new key is
\* appended
DictUpdate(d, k, v) ==
    IF DictHas(d, k)
    THEN [i \in 1..Len(d) |-> IF d[i][1] = k THEN <<k, v>> ELSE d[i]]
    ELSE Append(d, <<k, v>>)

\* ------------------------------------------------------------------------
\* Layers of the data container
\* ------------------------------------------------------------------------
AllX == {"X_u", "X_s", "X_t", "X_n", "X_ul", "X_sl", "X_uu", "X_su", "X_total", "X_new"}
AllM == {"M_u", "M_s", "M_t", "M_n", "M_ul", "M_sl", "M_uu", "M_su", "M_us", "M_ss"}

\* layer sets a container can hold: raw only; raw and every moment; raw and
\* the moments of a splicing-only smoothing; raw and the total moments only
Storages ==
    { AllX,
      AllX \cup AllM,
      AllX \cup {"M_u", "M_s", "M_t", "M_n", "M_us", "M_ss"},
      AllX \cup {"M_t", "M_us", "M_ss"} }

IsSmoothedLayer(l) == l \in AllM
IsRawLayer(l) == l \in AllX

\* `A if (probe in layers and data_type == 'smoothed') else B`
Pick(call, probe, smoothed, raw) ==
    IF probe \in call.layers /\ call.data_type = "smoothed" THEN smoothed ELSE raw

\* ------------------------------------------------------------------------
\* Program constants
\* ------------------------------------------------------------------------
\* upper end of the default search range of a rate or an initial condition
RangeMax == 1000
\* upper end of gamma's range for deg without splicing
DegGammaMax == 10
\* the rough alpha estimate is scaled by this to give alpha's upper bound
AlphaScale == 10
\* fewer valid genes than this after the sanity check is fatal
MinValidGenes == 5

Full == <<0, RangeMax>>
Zero == <<0, 0>>

\* ------------------------------------------------------------------------
\* kinetic_model: layer selection and model registry (up to the gene loop)
\* ------------------------------------------------------------------------
\* What the part of kinetic_model before the gene loop yields: the exception
\* it raises ("none" if none), whether it returns at once (twostep for kin),
\* the layers it selected, whether X / X_raw got bound, and the registry
\* entry (parameter ranges, initial-condition ranges, estimator; instance is
\* TRUE when Est is bound to one estimator object rather than to a class).
Setup(exc, ret, layers, X_defined, ranges, x0, Est, instance) ==
    [exc |-> exc, ret |-> ret, layers |-> layers, X_defined |-> X_defined,
     ranges |-> ranges, x0 |-> x0, Est |-> Est, instance |-> instance]

Raises(exc, layers, X_defined) ==
    Setup(exc, FALSE, layers, X_defined, <<>>, <<>>, "None", FALSE)

\* subset_adata.layers[name] for every name read: KeyError when one is absent
ReadsOrKeyError(call, read) ==
    IF read \subseteq call.layers
    THEN Setup("none", TRUE, read, FALSE, <<>>, <<>>, "None", FALSE)
    ELSE Raises("KeyError", read, FALSE)

\* experiment_type 'kin', est_method 'twostep'
KinTwostep(call) ==
    IF call.has_splicing
    THEN ReadsOrKeyError(call,
             Pick(call, "M_u", {"M_u", "M_s", "M_t", "M_n"}, {"X_u", "X_s", "X_t", "X_n"})
                 \cup {"M_us", "M_ss"})
    ELSE ReadsOrKeyError(call, Pick(call, "M_t", {"M_t", "M_n"}, {"X_t", "X_n"}))

\* experiment_type 'kin', est_method 'direct', has_splicing and splicing_labeling
KinDirectSplicing(call) ==
    LET lm == Lower(call.model)
        layers == Pick(call, "M_ul", {"M_ul", "M_sl", "M_uu", "M_su"},
                                     {"X_ul", "X_sl", "X_uu", "X_su"})
        layer_u == Pick(call, "M_ul", "M_ul", "X_ul")
        layer_s == Pick(call, "M_ul", "M_sl", "X_sl")
        selected == IF lm \in {"deterministic", "stochastic"}
                    THEN layers \cup {layer_u, layer_s} ELSE layers
        bound == lm \in {"deterministic", "stochastic"} \/ StartsWithMixture(call.model)
    IN  CASE lm = "deterministic" ->
               Setup("none", FALSE, selected, bound,
                     << <<"alpha", Full>>, <<"beta", Full>>, <<"gamma", Full>> >>,
                     << <<"u0", Full>>, <<"s0", Full>> >>,
                     "Estimation_DeterministicKin", FALSE)
          [] lm = "stochastic" /\ call.has_switch ->
               Setup("none", FALSE, selected, bound,
                     << <<"a", Full>>, <<"b", Full>>, <<"alpha_a", Full>>,
                        <<"alpha_i", <<0>> >>, <<"beta", Full>>, <<"gamma", Full>> >>,
                     << <<"u0", Full>>, <<"s0", Full>>, <<"uu0", Full>>,
                        <<"ss0", Full>>, <<"us0", Full>> >>,
                     "Estimation_MomentKin", FALSE)
          [] lm = "stochastic" /\ ~call.has_switch ->
               Setup("none", FALSE, selected, bound,
                     << <<"alpha", Full>>, <<"beta", Full>>, <<"gamma", Full>> >>,
                     << <<"u0", Full>>, <<"s0", Full>>, <<"uu0", Full>>,
                        <<"ss0", Full>>, <<"us0", Full>> >>,
                     "Estimation_MomentKinNoSwitch", FALSE)
          [] lm = "mixture" ->
               Setup("none", FALSE, selected, bound,
                     << <<"alpha", Full>>, <<"alpha_2", Zero>>, <<"beta", Full>>,
                        <<"gamma", Full>> >>,
                     << <<"ul0", Zero>>, <<"sl0", Zero>>, <<"uu0", Full>>, <<"su0", Full>> >>,
                     "Mixture_KinDeg_NoSwitching", TRUE)
          [] lm = "mixture_deterministic_stochastic" ->
               Setup("none", FALSE, selected, TRUE,
                     << <<"alpha", Full>>, <<"alpha_2", Zero>>, <<"beta", Full>>,
                        <<"gamma", Full>> >>,
                     << <<"ul0", Zero>>, <<"sl0", Zero>>, <<"u0", Full>>, <<"s0", Full>>,
                        <<"uu0", Full>>, <<"ss0", Full>>, <<"us0", Full>> >>,
                     "Mixture_KinDeg_NoSwitching", TRUE)
          [] lm = "mixture_stochastic_stochastic" ->
               Setup("none", FALSE, selected, TRUE,
                     << <<"alpha", Full>>, <<"alpha_2", Zero>>, <<"beta", Full>>,
                        <<"gamma", Full>> >>,
                     << <<"ul0", Full>>, <<"sl0", Full>>, <<"ul_ul0", Full>>,
                        <<"sl_sl0", Full>>, <<"ul_sl0", Full>>, <<"u0", Full>>,
                        <<"s0", Full>>, <<"uu0", Full>>, <<"ss0", Full>>, <<"us0", Full>> >>,
                     "Mixture_KinDeg_NoSwitching", TRUE)
          [] OTHER -> Raises("NotImplementedError", selected, bound)

\* experiment_type 'kin', est_method 'direct', no splicing (or no
\* splicing_labeling)
KinDirectNoSplicing(call) ==
    LET lm == Lower(call.model)
        total_layer == Pick(call, "M_t", "M_t", "X_total")
        layer == Pick(call, "M_n", "M_n", "X_new")
        layers == Pick(call, "M_n", {"M_n", "M_t"}, {"X_new", "X_total"})
        selected == IF lm \in {"deterministic", "stochastic"} THEN {layer, total_layer}
                    ELSE IF StartsWithMixture(lm) THEN layers \cup {total_layer}
                    ELSE {total_layer}
        bound == lm \in {"deterministic", "stochastic"} \/ StartsWithMixture(lm)
    IN  CASE lm = "deterministic" ->
               Setup("none", FALSE, selected, bound,
                     << <<"alpha", Full>>, <<"gamma", Full>> >>,
                     << <<"u0", Full>> >>,
                     "Estimation_DeterministicKinNosp", FALSE)
          [] lm = "stochastic" /\ call.has_switch ->
               Setup("none", FALSE, selected, bound,
                     << <<"a", Full>>, <<"b", Full>>, <<"alpha_a", Full>>,
                        <<"alpha_i", <<0>> >>, <<"gamma", Full>> >>,
                     << <<"u0", Full>>, <<"uu0", Full>> >>,
                     "Estimation_MomentKinNosp", FALSE)
          [] lm = "stochastic" /\ ~call.has_switch ->
               Setup("none", FALSE, selected, bound,
                     << <<"alpha", Full>>, <<"gamma", Full>> >>,
                     << <<"u0", Full>>, <<"uu0", Full>> >>,
                     "Estimation_MomentKinNoSwitchNoSplicing", FALSE)
          [] lm = "mixture" ->
               Setup("none", FALSE, selected, bound,
                     << <<"alpha", Full>>, <<"alpha_2", Zero>>, <<"gamma", Full>> >>,
                     << <<"u0", Zero>>, <<"o0", Full>> >>,
                     "Mixture_KinDeg_NoSwitching", TRUE)
          [] lm = "mixture_deterministic_stochastic" ->
               Setup("none", FALSE, selected, bound,
                     << <<"alpha", Full>>, <<"alpha_2", Zero>>, <<"gamma", Full>> >>,
                     << <<"u0", Full>>, <<"o0", Full>>, <<"oo0", Full>> >>,
                     "Mixture_KinDeg_NoSwitching", TRUE)
          [] lm = "mixture_stochastic_stochastic" ->
               Setup("none", FALSE, selected, bound,
                     << <<"alpha", Full>>, <<"alpha_2", Zero>>, <<"gamma", Full>> >>,
                     << <<"u0", Full>>, <<"uu0", Full>>, <<"o0", Full>>, <<"oo0", Full>> >>,
                     "Mixture_KinDeg_NoSwitching", TRUE)
          [] OTHER -> Raises("Exception: not implemented", selected, bound)

\* experiment_type 'deg', has_splicing and splicing_labeling
DegSplicing(call) ==
    LET lm == Lower(call.model)
        layers == Pick(call, "M_ul", {"M_ul", "M_sl", "M_uu", "M_su"},
                                     {"X_ul", "X_sl", "X_uu", "X_su"})
        layer_u == Pick(call, "M_ul", "M_ul", "X_ul")
        layer_s == Pick(call, "M_sl", "M_sl", "X_sl")
        selected == IF lm \in {"deterministic", "stochastic"}
                    THEN layers \cup {layer_u, layer_s} ELSE layers
        bound == lm \in {"deterministic", "stochastic"} \/ StartsWithMixture(lm)
    IN  CASE lm = "deterministic" ->
               Setup("none", FALSE, selected, bound,
                     << <<"beta", Full>>, <<"gamma", Full>> >>,
                     << <<"u0", Full>>, <<"s0", Full>> >>,
                     "Estimation_DeterministicDeg", FALSE)
          [] lm = "stochastic" ->
               Setup("none", FALSE, selected, bound,
                     << <<"beta", Full>>, <<"gamma", Full>> >>,
                     << <<"u0", Full>>, <<"s0", Full>>, <<"uu0", Full>>,
                        <<"ss0", Full>>, <<"us0", Full>> >>,
                     "Estimation_MomentDeg", FALSE)
          [] OTHER -> Raises("NotImplementedError", selected, bound)

\* experiment_type 'deg', no splicing (or no splicing_labeling)
DegNoSplicing(call) ==
    LET lm == Lower(call.model)
        selected == {Pick(call, "M_t", "M_t", "X_total"), Pick(call, "M_n", "M_n", "X_new")}
    IN  CASE lm = "deterministic" ->
               Setup("none", FALSE, selected, TRUE,
                     << <<"gamma", <<0, DegGammaMax>> >> >>,
                     << <<"u0", Full>> >>,
                     "Estimation_DeterministicDegNosp", FALSE)
          [] lm = "stochastic" ->
               Setup("none", FALSE, selected, TRUE,
                     << <<"gamma", <<0, DegGammaMax>> >> >>,
                     << <<"u0", Full>>, <<"uu0", Full>> >>,
                     "Estimation_MomentDegNosp", FALSE)
          [] OTHER -> Raises("NotImplementedError", selected, TRUE)

\* MixPulseChase without its else arm: every model string is fitted as the
\* deterministic chase model
MixPulseChase_AnyModel(call) ==
    Setup("none", FALSE,
          {Pick(call, "M_n", "M_n", "X_new"), Pick(call, "M_t", "M_t", "X_total")}, TRUE,
          << <<"alpha", Full>>, <<"gamma", Full>> >>,
          << <<"u0", Full>> >>,
          "Estimation_KineticChase", FALSE)

\* experiment_type 'mix_pulse_chase'
MixPulseChase(call) ==
    LET lm == Lower(call.model)
        total_layer == Pick(call, "M_t", "M_t", "X_total")
        layer == Pick(call, "M_n", "M_n", "X_new")
    IN  IF lm = "deterministic"
        THEN Setup("none", FALSE, {layer, total_layer}, TRUE,
                   << <<"alpha", Full>>, <<"gamma", Full>> >>,
                   << <<"u0", Full>> >>,
                   "Estimation_KineticChase", FALSE)
        ELSE Raises("NotImplementedError", {total_layer}, FALSE)

\* The dispatch on experiment_type, est_method, splicing and model.  A kin
\* call whose est_method is neither 'twostep' nor 'direct' binds nothing and
\* reaches the first use of _param_ranges: UnboundLocalError.
ResolveModel(call) ==
    LET et == Lower(call.experiment_type)
    IN  CASE et = "kin" /\ call.est_method = "twostep" -> KinTwostep(call)
          [] et = "kin" /\ call.est_method = "direct"
                /\ call.has_splicing /\ call.splicing_labeling -> KinDirectSplicing(call)
          [] et = "kin" /\ call.est_method = "direct"
                /\ ~(call.has_splicing /\ call.splicing_labeling) -> KinDirectNoSplicing(call)
          [] et = "kin" /\ call.est_method \notin {"twostep", "direct"} ->
               Raises("UnboundLocalError", {}, FALSE)
          [] et = "deg" /\ call.has_splicing /\ call.splicing_labeling -> DegSplicing(call)
          [] et = "deg" /\ ~(call.has_splicing /\ call.splicing_labeling) -> DegNoSplicing(call)
          [] et = "mix_std_stm" -> Raises("Exception: not implemented", {}, FALSE)
          [] et = "mix_pulse_chase" -> MixPulseChase(call)
          [] et = "pulse_time_series" -> Raises("Exception: not implemented", {}, FALSE)
          [] et = "dual_labeling" -> Raises("Exception: not implemented", {}, FALSE)
          [] OTHER -> Raises("Exception: not recognized", {}, FALSE)

\* update_dict(dict1, dict2): the keys of dict1 that dict2 also has take
\* dict2's value; dict1 gets no new key
RECURSIVE update_dict(_, _)
update_dict(dict1, dict2) ==
    IF dict2 = <<>> THEN dict1
    ELSE update_dict(IF DictHas(dict1, Head(dict2)[1])
                     THEN DictUpdate(dict1, Head(dict2)[1], Head(dict2)[2])
                     ELSE dict1,
                     Tail(dict2))


\* ------------------------------------------------------------------------
\* State
\* ------------------------------------------------------------------------
VARIABLES
    \* kinetic_model
    call,           \* the arguments of the running kinetic_model call
    km_pc,          \* "idle", "called", "loop", "returned", "raised"
    km_exc,         \* the exception kinetic_model ended with ("none" if none)
    layers_sel,     \* the layers the call selected to read its data from
    X_defined,      \* whether X and X_raw are bound
    _param_ranges,  \* the parameter-range dict
    x0,             \* the initial-condition range dict
    Est,            \* the estimator: [cls, obj]; obj = 0 for a class, else the
                    \* index in estimators of the instance Est is bound to
    estimators,     \* the estimator objects created so far (their classes)
    i_gene,         \* genes the loop has completed
    fits,           \* one record per fit started: gene, estimator object,
                    \* ranges handed to its constructor, alpha0, outcome
    cost,           \* cost[i_gene] of the completed genes
    half_life,      \* per gene: the estimate ln(2) was divided by
    logLL,          \* per gene: the layers the scored observations came from
    Estm_df         \* the returned parameter table: <<column, estimate>> pairs

VARIABLES
    \* dynamics: inputs
    pp,             \* adata.uns['pp']: experiment_type, has_splicing, splicing_labeling
    kw,             \* the arguments as given: use_smoothed, re_smooth,
                    \* sanity_check, NTR_vel, group, model; n_groups is
                    \* len(_group)
    valid_bools,    \* get_valid_bools: the genes of adata that pass the filter
    \* dynamics: locals
    pc,             \* "start", "group", "resolve", "ss", "kinetic",
                    \* "in_kinetic_model", "done", "raised"; "idle" when
                    \* kinetic_model is run on its own
    exc,            \* the exception dynamics ended with ("none" if none)
    model,
    model_was_auto,
    assumption_mRNA,
    est_method,
    assump_mRNA,    \* the assumption get_data_for_kin_params_estimation gives
    cur_grp_i,      \* groups completed
    slope,          \* fit_linreg's slope of each filter-passing gene
    valid_gene_checker,
    valid_bools_,
    subset_genes,   \* the genes (columns) of subset_adata
    filtered,       \* the number in the 'filtering N genes' warning, -1 if none
    \* dynamics: the container and the collaborators
    adata_layers,   \* adata.layers.keys()
    moments_calls,  \* calls of moments() so far
    sanity_check_col, \* adata.var[... 'sanity_check'] per group; <<>> if unwritten
    written,        \* what has been stored in adata so far
    est_calls,      \* the estimator calls: which, and with what model,
                    \* assumption_mRNA and est_method
    \* dynamics: velocity reconstruction of the group last estimated
    params,         \* alpha, beta, gamma as the fit gave them
    vel,            \* vel.parameters of the velocity object
    vel_U,
    vel_S,
    vel_N,
    vel_T

VARIABLES
    \* dynamics: what each step was run under
    selections,     \* the value of model at each smoothing decision and at
                    \* each call of get_data_for_kin_params_estimation
    X_genes,        \* the genes the matrices of the current group cover:
                    \* first for U, Ul, S, Sl; second for US, S2 (<<>> for
                    \* None)
    Kc,             \* the fitted gamma of a gene and its clipped value, in
                    \* thousandths, at the last rescaling of vel_T
    uns             \* adata.uns[uns_key]: the run-metadata record

dyn_vars == <<pp, kw, valid_bools, pc, exc, model, model_was_auto, assumption_mRNA,
              est_method, assump_mRNA, cur_grp_i, slope, valid_gene_checker,
              valid_bools_, subset_genes, filtered, adata_layers, moments_calls,
              sanity_check_col, written, est_calls,
              params, vel, vel_U, vel_S, vel_N, vel_T,
              selections, X_genes, Kc, uns>>

rec_vars == <<selections, X_genes, Kc, uns>>

vel_vars == <<params, vel, vel_U, vel_S, vel_N, vel_T>>

km_vars == <<call, km_pc, km_exc, layers_sel, X_defined, _param_ranges, x0, Est,
             estimators, i_gene, fits, cost, half_life, logLL, Estm_df>>

vars == <<dyn_vars, km_vars>>

\* ------------------------------------------------------------------------
\* Inputs
\* ------------------------------------------------------------------------
\* the columns of adata.obs, the labels of its index (the cells), and what
\* a caller can give for group: nothing, a column, a name that is no column
ObsColumns == {"cell_type", "time"}
ObsIndex == {"cell_0", "cell_1"}
GroupArgs == {"None", "cell_type", "batch"}

\* fitted gamma of a gene under the steady-state assumption (the slope of
\* the new / total regression), in thousandths
GammaFits == {-500, 0, 500, 1500}

\* 1 - 1e-3 in thousandths
KcMax == 999

\* no run-metadata record has been stored
NoUns == [key |-> "none", model |-> "none", asspt_mRNA |-> "none", est_method |-> "none"]

\* experiment types: the eight of the experiment descriptor and one that is
\* none of them
ExperimentTypes ==
    {"conventional", "kin", "deg", "one-shot", "mix_std_stm", "mix_pulse_chase",
     "pulse_time_series", "dual_labeling", "unknown"}

\* model strings handed to kinetic_model
KineticModels ==
    {"deterministic", "stochastic", "mixture", "Mixture",
     "mixture_deterministic_stochastic", "mixture_stochastic_stochastic",
     "model_selection"}

\* what the optimiser (fit_lsq / auto_fit) can do on one gene: converge,
\* end with a non-finite cost, or raise
FitOutcomes == {"ok", "nonfinite", "raise"}

\* overrides a caller may pass as param_rngs
ParamRngs == { <<>>, << <<"gamma", <<0, 5>> >>, <<"delta", <<0, 5>> >> >> }

Calls ==
    [experiment_type : ExperimentTypes \ {"conventional", "one-shot"},
     model : KineticModels,
     est_method : {"twostep", "direct", "Auto"},
     has_splicing : BOOLEAN,
     splicing_labeling : BOOLEAN,
     has_switch : BOOLEAN,
     param_rngs : ParamRngs,
     data_type : {"sfs", "smoothed"},
     layers : Storages,
     n_genes : 1..MaxGenes]

NoCall ==
    [experiment_type |-> "none", model |-> "none", est_method |-> "none",
     has_splicing |-> FALSE, splicing_labeling |-> FALSE, has_switch |-> FALSE,
     param_rngs |-> <<>>, data_type |-> "sfs", layers |-> {}, n_genes |-> 0]

\* kinetic_model has just been entered with arguments c
Entered(c) ==
    /\ call = c
    /\ km_pc = "called"
    /\ km_exc = "none"
    /\ layers_sel = {}
    /\ X_defined = FALSE
    /\ _param_ranges = <<>>
    /\ x0 = <<>>
    /\ Est = [cls |-> "None", obj |-> 0]
    /\ estimators = <<>>
    /\ i_gene = 0
    /\ fits = <<>>
    /\ cost = <<>>
    /\ half_life = <<>>
    /\ logLL = <<>>
    /\ Estm_df = <<>>

\* ------------------------------------------------------------------------
\* kinetic_model
\* ------------------------------------------------------------------------
\* TwostepTable with beta taken from a fit instead of gamma / gamma_k
TwostepTable_BetaFitted(c) ==
    << <<"alpha", "gamma * New / k">>, <<"beta", "beta">>, <<"gamma", "gamma">> >>

\* Estm_df of the kin twostep branch: each column with the closed form it
\* is computed by
TwostepTable(c) ==
    IF c.has_splicing
    THEN << <<"alpha", "gamma * New / k">>, <<"beta", "gamma / gamma_k">>,
            <<"gamma_k", "gamma_k">>, <<"gamma_b", "gamma_b">>,
            <<"gamma_k_r2", "gamma_all_r2">>, <<"gamma_logLL", "gamma_all_logLL">>,
            <<"gamma", "gamma">>, <<"gamma_r2", "gamma_r2">>, <<"mean_R2", "mean_R2">> >>
    ELSE << <<"alpha", "gamma * New / k">>, <<"gamma", "gamma">>,
            <<"gamma_r2", "gamma_r2">>, <<"mean_R2", "mean_R2">> >>

\* the i-th entry of estm.export_parameters()[1:] (deg, mix_pulse_chase)
ExportedAfterFirst(i) ==
    CASE i = 1 -> "export_parameters()[1]"
      [] i = 2 -> "export_parameters()[2]"
      [] OTHER -> "export_parameters()[3]"

\* seq without its entry at 0-based index 3 (tmp.mask[3] = True; compressed)
MaskFourth(seq) ==
    IF Len(seq) < 4 THEN seq
    ELSE [i \in 1..(Len(seq) - 1) |-> IF i < 4 THEN seq[i] ELSE seq[i + 1]]

\* Estm[i_gene]: which estimate sits at each position of the gene's row.
\* The estimators give their fitted parameters in the order of the ranges
\* they were built with; a mixture estimator's row is its kinetic parameters
\* followed by its initial conditions (mix_x0).
EstmRow(c, ranges, x0_) ==
    LET lm == Lower(c.model)
    IN  IF StartsWithMixture(lm) THEN DictKeys(ranges) \o DictKeys(x0_)
        ELSE IF Lower(c.experiment_type) = "kin"
        THEN (IF lm = "deterministic" THEN DictKeys(ranges) ELSE MaskFourth(DictKeys(ranges)))
        ELSE [i \in 1..Len(ranges) |-> ExportedAfterFirst(i)]

\* line 1124: the estimate ln(2) is divided by; for deg and mix_pulse_chase
\* the estimator's own gamma (calc_half_life('gamma'))
HalfLifeOf(c, row) ==
    IF Lower(c.experiment_type) = "kin" THEN row[Len(row)] ELSE "gamma"

\* the layers cur_X_raw holds observations of: prepare_data_* is handed the
\* selected layers only and gives X and X_raw from them
X_rawLayers(c, layers) == layers

\* all_keys (lines 1033-1034): the keys of the range table at loop start,
\* 'alpha_i' left out, then the keys of x0
AllKeys(c, x0_) ==
    SelectSeq(DictKeys(update_dict(ResolveModel(c).ranges, c.param_rngs)),
              LAMBDA k : k # "alpha_i") \o DictKeys(x0_)

\* pd.DataFrame(np.vstack(Estm), columns=all_keys[:len(Estm[0])])
LoopTable(c, row, x0_) ==
    [i \in 1..Len(row) |-> <<AllKeys(c, x0_)[i], row[i]>>]

\* lines 1147-1149 and 1163-1165: gamma_k, beta and gamma_r2 of the twostep
\* post-processing
TwostepBeta(table) ==
    DictUpdate(DictUpdate(DictUpdate(table, "gamma_k", "gamma_k"),
                          "beta", "gamma / gamma_k"),
               "gamma_r2", "gamma_all_r2")

\* From the entry to the gene loop: dispatch, registry, update_dict and the
\* allocation of the result arrays.
KM_Setup ==
    /\ km_pc = "called"
    /\ LET s == ResolveModel(call)
       IN  /\ layers_sel' = s.layers
           /\ X_defined' = s.X_defined
           /\ km_exc' = s.exc
           /\ km_pc' = IF s.exc # "none" THEN "raised"
                       ELSE IF s.ret THEN "returned" ELSE "loop"
           /\ _param_ranges' = IF s.exc = "none" /\ ~s.ret
                               THEN update_dict(s.ranges, call.param_rngs) ELSE <<>>
           /\ x0' = s.x0
           /\ Est' = [cls |-> s.Est, obj |-> IF s.instance THEN 1 ELSE 0]
           /\ estimators' = IF s.instance THEN <<s.Est>> ELSE <<>>
           /\ half_life' = IF s.exc = "none" /\ s.ret
                            THEN [g \in 1..call.n_genes |-> "gamma"] ELSE <<>>
           /\ Estm_df' = IF s.exc = "none" /\ s.ret THEN TwostepTable(call) ELSE <<>>
    /\ UNCHANGED <<call, i_gene, fits, cost, logLL>>
    /\ UNCHANGED dyn_vars

\* The key of _param_ranges the kin branch of the loop overwrites with
\* [0, 10 * alpha0]
AlphaKey(lm) == IF lm = "stochastic" THEN "alpha_a" ELSE "alpha"

\* _param_ranges as the loop body leaves it for a gene with estimate alpha0
AdaptRanges(ranges, lm, alpha0) ==
    IF lm \in {"stochastic", "deterministic"}
    THEN DictUpdate(ranges, AlphaKey(lm), <<0, alpha0 * AlphaScale>>)
    ELSE ranges

\* The estimator object the loop body fits gene i_gene with: Est itself when
\* Est is an instance (mixture models), a new object of class Est otherwise.
\* Gives <<estimators', object index>>.
Instantiate(objs, est) ==
    IF est.obj # 0 THEN <<objs, est.obj>>
    ELSE <<Append(objs, est.cls), Len(objs) + 1>>

\* inspect.getfullargspec(Est): the FullArgSpec tuple of the estimator's
\* constructor (args, varargs, varkw; defaults, kwonlyargs, kwonlydefaults
\* and annotations are never strings); accepts tells whether the
\* constructor has a parameter named x0
FullArgSpec(accepts) ==
    [args |-> IF accepts THEN <<"self", "ranges", "x0">> ELSE <<"self", "ranges">>,
     varargs |-> "None", varkw |-> "None"]

\* `name in inspect.getfullargspec(Est)`: membership in the tuple itself,
\* i.e. equality of name with one of its fields; the list args never
\* equals a string
InArgSpec(name, argspec) == name \in {argspec.varargs, argspec.varkw}

\* line 1064: the rough alpha estimate sums the gene's rows (spliced data)
\* exactly when has_splicing is set
AlphaFromSplicedData(c) == c.has_splicing

\* lines 1126-1132: the species scored by GoodnessOfFit.prepare_data; <<>>
\* when no selection is passed
Species(c) ==
    IF StartsWithMixture(Lower(c.model))
    THEN (IF c.has_splicing THEN <<0, 1, 2, 3>> ELSE <<0, 1>>)
    ELSE <<>>

\* One pass of the gene loop.
KM_FitGene ==
    /\ km_pc = "loop"
    /\ i_gene < call.n_genes
    /\ \E alpha0 \in 1..MaxAlpha0, outcome \in FitOutcomes, accepts \in BOOLEAN :
         LET lm == Lower(call.model)
             et == Lower(call.experiment_type)
             mix == StartsWithMixture(lm)
             unbound == mix /\ ~X_defined
             a0 == IF ~mix /\ et = "kin" THEN alpha0 ELSE 0
             ranges == IF ~mix /\ et = "kin"
                       THEN AdaptRanges(_param_ranges, lm, alpha0) ELSE _param_ranges
             made == Instantiate(estimators, Est)
             handed == IF ~mix /\ et = "kin" THEN DictValues(ranges) ELSE <<>>
             row == EstmRow(call, ranges, x0)
             \* the estimator is constructed from its class with the ranges
             kin_fit == ~mix /\ et = "kin"
         IN  IF accepts /\ ~kin_fit THEN FALSE
             ELSE IF unbound
             THEN /\ km_pc' = "raised"
                  /\ km_exc' = "UnboundLocalError"
                  /\ UNCHANGED <<_param_ranges, estimators, fits, cost, i_gene,
                                 half_life, logLL>>
             ELSE /\ _param_ranges' = ranges
                  /\ estimators' = made[1]
                  /\ fits' = Append(fits, [gene |-> i_gene, obj |-> made[2],
                                           ranges |-> handed, alpha0 |-> a0,
                                           accepts_x0 |-> accepts,
                                           x0 |-> IF kin_fit
                                                     /\ InArgSpec("x0", FullArgSpec(accepts))
                                                  THEN DictValues(x0) ELSE <<>>,
                                           spliced |-> kin_fit /\ AlphaFromSplicedData(call),
                                           outcome |-> outcome])
                  /\ IF outcome = "raise"
                     THEN /\ km_pc' = "raised"
                          /\ km_exc' = "FitError"
                          /\ UNCHANGED <<cost, i_gene, half_life, logLL>>
                     ELSE /\ cost' = Append(cost, outcome)
                          /\ half_life' = Append(half_life, HalfLifeOf(call, row))
                          /\ logLL' = Append(logLL, [gene |-> i_gene,
                                                      species |-> Species(call),
                                                      observed |-> X_rawLayers(call, layers_sel)])
                          /\ i_gene' = i_gene + 1
                          /\ UNCHANGED <<km_pc, km_exc>>
    /\ UNCHANGED <<call, layers_sel, X_defined, x0, Est, Estm_df>>
    /\ UNCHANGED dyn_vars

\* After the loop: the twostep beta for deg and mix_pulse_chase with
\* splicing, and the parameter table.
KM_Return ==
    /\ km_pc = "loop"
    /\ i_gene = call.n_genes
    /\ LET et == Lower(call.experiment_type)
           twostep == et \in {"deg", "mix_pulse_chase"} /\ call.est_method = "twostep"
                      /\ call.has_splicing
           read == Pick(call, "M_u", {"M_u", "M_s"}, {"X_u", "X_s"}) \cup {"M_us", "M_ss"}
       IN  /\ layers_sel' = IF twostep THEN layers_sel \cup read ELSE layers_sel
           /\ km_exc' = IF twostep /\ ~(read \subseteq call.layers) THEN "KeyError"
                        ELSE IF call.n_genes = 0 THEN "ValueError"
                        ELSE "none"
           /\ km_pc' = IF km_exc' = "none" THEN "returned" ELSE "raised"
           /\ Estm_df' = IF km_exc' # "none" THEN <<>>
                          ELSE LET table == LoopTable(call, EstmRow(call, _param_ranges, x0), x0)
                               IN  IF twostep THEN TwostepBeta(table) ELSE table
    /\ UNCHANGED <<call, X_defined, _param_ranges, x0, Est, estimators, i_gene, fits, cost,
                   half_life, logLL>>
    /\ UNCHANGED dyn_vars

NextKM == KM_Setup \/ KM_FitGene \/ KM_Return

\* ------------------------------------------------------------------------
\* dynamics
\* ------------------------------------------------------------------------
\* np.where(b)[0]: the indices at which b is TRUE, ascending
RECURSIVE Where(_, _)
Where(b, i) ==
    IF i > Len(b) THEN <<>>
    ELSE (IF b[i] THEN <<i>> ELSE <<>>) \o Where(b, i + 1)

\* sum(b): how many entries of b are TRUE
CountTrue(b) == Len(Where(b, 1))

\* a[b]: the entries of a at which the boolean mask b is TRUE
BoolIndex(a, b) == [k \in 1..CountTrue(b) |-> a[Where(b, 1)[k]]]

\* moments(): the smoothed layers it stores
MomentsLayers == AllM

\* lines 279-283
ResolveAuto(m) == IF Lower(m) = "auto" THEN "stochastic" ELSE m

\* SlopeValid with a flat gene accepted in a kin experiment
SlopeValid_FlatKept(sl, experiment_type) ==
    (sl >= 0 /\ experiment_type = "kin") \/ (sl < 0 /\ experiment_type = "deg")

\* valid_gene_checker of the sanity check: slope > 0 for 'kin', slope < 0
\* for 'deg'
SlopeValid(sl, experiment_type) ==
    (sl > 0 /\ experiment_type = "kin") \/ (sl < 0 /\ experiment_type = "deg")

\* valid_bools_[indices_valid_bools[~valid_gene_checker]] = False
DropInvalid(vb, checker) ==
    LET indices_valid_bools == Where(vb, 1)
    IN  [g \in 1..Len(vb) |->
            vb[g] /\ ~(\E k \in 1..Len(checker) :
                          indices_valid_bools[k] = g /\ ~checker[k])]

\* the length test that guards the run after the sanity check
TooFewValid(vb_) == Len(vb_) < MinValidGenes

\* one step of the run and the value of model it was taken under
Selection(step, grp, m) == [step |-> step, grp |-> grp, model |-> m]

\* whether get_data_for_kin_params_estimation gives the second moments US
\* and S2: the moment (stochastic) model is the one that uses them
HasSecondMoments(m) == Lower(m) = "stochastic"

\* NoGenesPass with the test of line 276 left out
NoGenesPass_Never(gene_num) == FALSE

\* line 276: gene_num == 0
NoGenesPass(gene_num) == gene_num = 0

\* From the entry to the group loop: the gene filter, the resolution of
\* model 'auto', and the smoothing.
D_Start ==
    /\ pc = "start"
    /\ LET gene_num == CountTrue(valid_bools)
           m == ResolveAuto(model)
           smooth == Lower(m) = "stochastic" \/ kw.use_smoothed \/ kw.re_smooth
           M_layers == adata_layers \cap AllM
           redo == smooth /\ (kw.re_smooth \/ Cardinality(M_layers) < 2)
       IN  IF NoGenesPass(gene_num)
           THEN /\ pc' = "raised"
                /\ exc' = "Exception: no genes pass filter"
                /\ UNCHANGED <<model, model_was_auto, adata_layers, moments_calls,
                               selections>>
           ELSE /\ pc' = "group"
                /\ model' = m
                /\ model_was_auto' = (Lower(model) = "auto")
                /\ adata_layers' = IF redo THEN (adata_layers \ M_layers) \cup MomentsLayers
                                   ELSE adata_layers
                /\ moments_calls' = IF redo THEN moments_calls + 1 ELSE moments_calls
                /\ selections' = Append(selections, Selection("smoothing", 0, m))
                /\ UNCHANGED exc
    /\ UNCHANGED <<X_genes, Kc, uns>>
    /\ UNCHANGED vel_vars
    /\ UNCHANGED <<pp, kw, valid_bools, assumption_mRNA, est_method, assump_mRNA,
                   cur_grp_i, slope, valid_gene_checker, valid_bools_, subset_genes,
                   filtered, sanity_check_col, written, est_calls>>
    /\ UNCHANGED km_vars

\* The head of one pass of the group loop: the group's cells, its data
\* (get_data_for_kin_params_estimation) and the sanity check.
D_Group ==
    /\ pc = "group"
    /\ cur_grp_i < kw.n_groups
    /\ \E a \in {"ss", "kinetic"}, sl \in [1..CountTrue(valid_bools) -> {-1, 0, 1}] :
         LET gene_num == CountTrue(valid_bools)
             check == kw.sanity_check /\ Lower(pp.experiment_type) \in {"kin", "deg"}
             checker == [k \in 1..gene_num |-> SlopeValid(sl[k], pp.experiment_type)]
             vb_ == IF check THEN DropInvalid(valid_bools, checker) ELSE valid_bools
             grouped == kw.n_groups > 1
         IN  /\ assump_mRNA' = a
             /\ moments_calls' = IF grouped /\ (Lower(model) = "stochastic" \/ kw.use_smoothed)
                                 THEN moments_calls + 1 ELSE moments_calls
             /\ valid_bools_' = vb_
             /\ selections' = selections
                    \o (IF grouped THEN <<Selection("smoothing", cur_grp_i, model)>> ELSE <<>>)
                    \o <<Selection("get_data", cur_grp_i, model)>>
             /\ X_genes' = [first |-> IF check /\ ~TooFewValid(vb_)
                                       THEN BoolIndex(Where(valid_bools, 1), checker)
                                       ELSE Where(valid_bools, 1),
                            second |-> IF HasSecondMoments(model)
                                       THEN Where(valid_bools, 1) ELSE <<>>]
             /\ IF check
                THEN /\ slope' = sl
                     /\ valid_gene_checker' = checker
                     /\ filtered' = gene_num - CountTrue(checker)
                     /\ IF TooFewValid(vb_)
                        THEN /\ pc' = "raised"
                             /\ exc' = "Exception: less than 5 valid genes"
                             /\ UNCHANGED <<subset_genes, sanity_check_col, written>>
                        ELSE /\ pc' = "resolve"
                             /\ subset_genes' = BoolIndex(Where(valid_bools, 1), checker)
                             /\ sanity_check_col' = Append(sanity_check_col, vb_)
                             /\ written' = written \cup {"sanity_check"}
                             /\ UNCHANGED exc
                ELSE /\ sl = [k \in 1..gene_num |-> 0]
                     /\ pc' = "resolve"
                     /\ subset_genes' = Where(valid_bools, 1)
                     /\ UNCHANGED <<slope, valid_gene_checker, filtered, exc,
                                    sanity_check_col, written>>
    /\ UNCHANGED <<Kc, uns>>
    /\ UNCHANGED vel_vars
    /\ UNCHANGED <<pp, kw, valid_bools, model, model_was_auto, assumption_mRNA,
                   est_method, cur_grp_i, adata_layers, est_calls>>
    /\ UNCHANGED km_vars

\* lines 379-380: assumption_mRNA after the resolution of 'auto'
ResolveAssumption(asm, assump, experiment_type) ==
    IF Lower(experiment_type) = "conventional" THEN "ss"
    ELSE IF Lower(asm) = "auto" THEN assump ELSE asm

\* ResolveModelName without the rule for a model given as 'auto' on kin
\* and deg data
ResolveModelName_AutoKept(m, was_auto, experiment_type) ==
    IF Lower(m) = "stochastic"
         /\ Lower(experiment_type) \notin
              {"conventional", "kinetics", "degradation", "kin", "deg", "one-shot"}
    THEN "deterministic" ELSE m

\* lines 382-390: model before the estimation branch is chosen
ResolveModelName(m, was_auto, experiment_type) ==
    LET m1 == IF Lower(m) = "stochastic"
                 /\ Lower(experiment_type) \notin
                      {"conventional", "kinetics", "degradation", "kin", "deg", "one-shot"}
              THEN "deterministic" ELSE m
    IN  IF was_auto /\ Lower(experiment_type) \in {"kinetic", "kin", "degradation", "deg"}
        THEN "deterministic" ELSE m1

\* TakesSteadyState with pulse_time_series added to the experiment types
\* that always take the steady-state branch
TakesSteadyState_PulseToo(asm, experiment_type) ==
    Lower(asm) = "ss"
        \/ Lower(experiment_type) \in {"one-shot", "mix_std_stm", "pulse_time_series"}

\* whether the steady-state branch is taken (line 392)
TakesSteadyState(asm, experiment_type) ==
    Lower(asm) = "ss" \/ Lower(experiment_type) \in {"one-shot", "mix_std_stm"}

\* Lines 379-392, 555, 739: the resolution of assumption_mRNA and model and
\* the choice of the estimation branch.  A group for which neither branch
\* applies is left without estimation and the loop goes on.
D_Resolve ==
    /\ pc = "resolve"
    /\ LET asm == ResolveAssumption(assumption_mRNA, assump_mRNA, pp.experiment_type)
           m == ResolveModelName(model, model_was_auto, pp.experiment_type)
       IN  /\ assumption_mRNA' = asm
           /\ model' = m
           /\ IF TakesSteadyState(asm, pp.experiment_type)
              THEN pc' = "ss" /\ UNCHANGED cur_grp_i
              ELSE IF Lower(asm) = "kinetic"
              THEN pc' = "kinetic" /\ UNCHANGED cur_grp_i
              ELSE pc' = "group" /\ cur_grp_i' = cur_grp_i + 1
    /\ UNCHANGED rec_vars
    /\ UNCHANGED vel_vars
    /\ UNCHANGED <<pp, kw, valid_bools, exc, model_was_auto, est_method, assump_mRNA,
                   slope, valid_gene_checker, valid_bools_, subset_genes, filtered,
                   adata_layers, moments_calls, sanity_check_col, written, est_calls>>
    /\ UNCHANGED km_vars

\* line 393
ResolveEstMethodSS(em, m) ==
    IF Lower(em) = "auto" THEN (IF Lower(m) = "stochastic" THEN "gmm" ELSE "ols") ELSE em

\* line 557
ResolveEstMethodKinetic(em) == IF em = "auto" THEN "direct" ELSE em

\* ------------------------------------------------------------------------
\* Velocity reconstruction
\* ------------------------------------------------------------------------
\* A parameter set: what alpha, beta and gamma are bound to ("None" for
\* Python's None)
NoParameters == [alpha |-> "None", beta |-> "None", gamma |-> "None"]

\* est.parameters of a fitted ss_estimation
EstParameters == [alpha |-> "alpha", beta |-> "beta", gamma |-> "gamma"]

\* lines 577-609: alpha, beta and gamma read from the table kinetic_model
\* returned; a missing column gives None, a missing alpha is fbar(...)
FittedParameters(table) ==
    [alpha |-> IF DictHas(table, "alpha") THEN "alpha" ELSE "fbar(a, b, alpha_a, alpha_i)",
     beta |-> IF DictHas(table, "beta") THEN "beta" ELSE "None",
     gamma |-> IF DictHas(table, "gamma") THEN "gamma" ELSE "None"]

\* A velocity value: the method of the velocity object that computed it,
\* its arguments and vel.parameters at the time of the call
Computed(fn, args, p) == [fn |-> fn, args |-> args, p |-> p]

\* velocity.vel_u: alpha - beta * U, computed from its argument and the
\* parameters of the velocity object
vel_u(args, p) == Computed("vel_u", args, p)

\* velocity.vel_s: beta * U - gamma * S, computed from its arguments and
\* the parameters of the velocity object
vel_s(args, p) == Computed("vel_s", args, p)

\* np.nan
NaN == Computed("nan", <<>>, NoParameters)

\* a name that has not been bound
NotAssigned == Computed("unbound", <<>>, NoParameters)

\* the rescaling of the total velocity by the effective gamma
EffectiveGamma == "(U - Kc * S) * (-log(1 - Kc) / t / Kc), Kc = clip(gamma, 0, 1 - 1e-3)"

\* Rescaled without the effective gamma: the plain total velocity
Rescaled_Plain(u, s, p) == vel_u(<<s>>, p)

\* (U - Kc * S) * (gamma_ / Kc) with Kc = clip(gamma, 0, 1 - 1e-3) and
\* gamma_ = -log(1 - Kc) / t
Rescaled(u, s, p) == Computed(EffectiveGamma, <<u, s>>, p)

Velocities(bound, v, vU, vS, vN, vT) ==
    [bound |-> bound, vel |-> v, vel_U |-> vU, vel_S |-> vS, vel_N |-> vN, vel_T |-> vT]

\* lines 437-521: U, S are get_U_S_for_velocity_estimation with NTR_vel,
\* U_, S_ with not NTR_vel; u1, s1 name the pair the unspliced and spliced
\* velocities are taken from, u2, s2 the pair for new and total
ReconstructSS(experiment_type, has_splicing, NTR_vel, p) ==
    LET u1 == IF NTR_vel THEN "U_" ELSE "U"
        s1 == IF NTR_vel THEN "S_" ELSE "S"
        u2 == IF NTR_vel THEN "U" ELSE "U_"
        s2 == IF NTR_vel THEN "S" ELSE "S_"
        kin == experiment_type = "kin"
    IN  IF Lower(experiment_type) \in {"one_shot", "one-shot", "kin"}
        THEN Velocities(TRUE, p,
                 IF ~has_splicing THEN NaN
                 ELSE IF kin /\ NTR_vel THEN vel_s(<<u1>>, p)
                 ELSE vel_u(<<u1>>, p),
                 IF ~has_splicing THEN NaN ELSE vel_s(<<u1, s1>>, p),
                 vel_u(<<u2>>, p),
                 IF kin THEN Rescaled(u2, s2, p)
                 ELSE IF has_splicing
                 THEN vel_s(<<u2, IF NTR_vel THEN "S - U" ELSE "S_ - U_">>, p)
                 ELSE vel_u(<<s2>>, p))
        ELSE Velocities(TRUE, p, vel_u(<<"U">>, p),
                        vel_s(<<"U", "S">>, p), NaN, NaN)

\* SetParameter with vel.parameters being the very table of the fitted
\* parameters
SetParameter_InPlace(p, k, v) == [p EXCEPT ![k] = v]

\* The fitted parameters p after vel.parameters[k] = v: the assignment
\* rebinds an entry of the velocity object's own table (built from the
\* keyword arguments of velocity(**params)); alpha, beta and gamma of the
\* fit are not touched
SetParameter(p, k, v) == p

\* lines 610-703: the kinetic branch; only the kin and deg arms bind the
\* four velocities.  Gives also the fitted parameters as the
\* reconstruction leaves them (fit).
ReconstructKinetic(experiment_type, has_splicing, NTR_vel, p) ==
    LET u1 == IF NTR_vel THEN "U_" ELSE "U"
        s1 == IF NTR_vel THEN "S_" ELSE "S"
        u2 == IF NTR_vel THEN "U" ELSE "U_"
        s2 == IF NTR_vel THEN "S" ELSE "S_"
        alpha_ == IF NTR_vel THEN "one_shot_alpha_matrix(U_, gamma, t)"
                  ELSE "one_shot_alpha_matrix(U, gamma, t)"
        p_beta == [p EXCEPT !.beta = p.gamma]
        p_alpha == [p EXCEPT !.alpha = alpha_]
    IN  IF experiment_type = "kin"
        THEN IF has_splicing
             THEN Velocities(TRUE, p_beta, vel_u(<<u1>>, p),
                             vel_s(<<u1, s1>>, p),
                             vel_u(<<u2>>, p),
                             vel_u(<<s2>>, p_beta))
                  @@ [fit |-> SetParameter(p, "beta", p.gamma)]
             ELSE Velocities(TRUE, p_alpha, NaN, NaN,
                             vel_u(<<u2>>, p_alpha),
                             vel_u(<<s2>>, p_alpha))
                  @@ [fit |-> SetParameter(p, "alpha", alpha_)]
        ELSE IF experiment_type = "deg"
        THEN Velocities(TRUE, p, NaN,
                        IF has_splicing THEN vel_s(<<u1, s1>>, p) ELSE NaN,
                        NaN, NaN) @@ [fit |-> p]
        ELSE Velocities(FALSE, p, NotAssigned, NotAssigned, NotAssigned, NotAssigned)
             @@ [fit |-> p]

\* np.clip(x, lo, hi)
Clip(x, lo, hi) == IF x < lo THEN lo ELSE IF x > hi THEN hi ELSE x

\* The steady-state branch: ss_estimation is built and fitted, velocities
\* and parameters are stored.
D_SteadyState ==
    /\ pc = "ss"
    /\ \E g \in GammaFits :
         IF pp.experiment_type = "kin"
         THEN Kc' = <<[gamma |-> g, Kc |-> Clip(g, 0, KcMax)]>>
         ELSE g = 0 /\ UNCHANGED Kc
    /\ UNCHANGED <<selections, X_genes, uns>>
    /\ est_method' = ResolveEstMethodSS(est_method, model)
    /\ est_calls' = Append(est_calls, [fn |-> "ss_estimation", grp |-> cur_grp_i,
                                       model |-> model,
                                       assumption_mRNA |-> assumption_mRNA,
                                       est_method |-> est_method'])
    /\ written' = written \cup {"velocity", "param_ss"}
    /\ LET r == ReconstructSS(pp.experiment_type, pp.has_splicing, kw.NTR_vel,
                              EstParameters)
       IN  /\ params' = EstParameters
           /\ vel' = r.vel
           /\ vel_U' = r.vel_U
           /\ vel_S' = r.vel_S
           /\ vel_N' = r.vel_N
           /\ vel_T' = r.vel_T
    /\ cur_grp_i' = cur_grp_i + 1
    /\ pc' = "group"
    /\ UNCHANGED <<pp, kw, valid_bools, exc, model, model_was_auto, assumption_mRNA,
                   assump_mRNA, slope, valid_gene_checker, valid_bools_, subset_genes,
                   filtered, adata_layers, moments_calls, sanity_check_col>>
    /\ UNCHANGED km_vars

\* The kinetic branch up to the call of kinetic_model.
D_KineticCall ==
    /\ pc = "kinetic"
    /\ model' = IF model_was_auto /\ Lower(pp.experiment_type) = "kin"
                THEN "mixture" ELSE model
    /\ est_method' = ResolveEstMethodKinetic(est_method)
    /\ est_calls' = Append(est_calls, [fn |-> "kinetic_model", grp |-> cur_grp_i,
                                       model |-> model',
                                       assumption_mRNA |-> assumption_mRNA,
                                       est_method |-> est_method'])
    /\ call' = [experiment_type |-> pp.experiment_type,
                model |-> model',
                est_method |-> est_method',
                has_splicing |-> pp.has_splicing,
                splicing_labeling |-> pp.splicing_labeling,
                has_switch |-> TRUE,
                param_rngs |-> <<>>,
                data_type |-> IF kw.use_smoothed THEN "smoothed" ELSE "sfs",
                layers |-> adata_layers,
                n_genes |-> Len(subset_genes)]
    /\ km_pc' = "called"
    /\ km_exc' = "none"
    /\ layers_sel' = {}
    /\ X_defined' = FALSE
    /\ _param_ranges' = <<>>
    /\ x0' = <<>>
    /\ Est' = [cls |-> "None", obj |-> 0]
    /\ estimators' = <<>>
    /\ i_gene' = 0
    /\ fits' = <<>>
    /\ cost' = <<>>
    /\ half_life' = <<>>
    /\ logLL' = <<>>
    /\ Estm_df' = <<>>
    /\ pc' = "in_kinetic_model"
    /\ UNCHANGED rec_vars
    /\ UNCHANGED vel_vars
    /\ UNCHANGED <<pp, kw, valid_bools, exc, model_was_auto, assumption_mRNA,
                   assump_mRNA, cur_grp_i, slope, valid_gene_checker, valid_bools_,
                   subset_genes, filtered, adata_layers, moments_calls,
                   sanity_check_col, written>>

\* The kinetic branch after kinetic_model: its exception propagates;
\* otherwise the velocities are reconstructed (only the kin and deg arms
\* bind vel_U, vel_S, vel_N and vel_T) and stored with the parameters.
D_KineticDone ==
    /\ pc = "in_kinetic_model"
    /\ km_pc \in {"returned", "raised"}
    /\ IF km_pc = "raised"
       THEN /\ pc' = "raised"
            /\ exc' = km_exc
            /\ UNCHANGED <<written, cur_grp_i>>
            /\ UNCHANGED vel_vars
       ELSE LET fit == FittedParameters(Estm_df)
                r == ReconstructKinetic(pp.experiment_type, pp.has_splicing,
                                        kw.NTR_vel, fit)
            IN  IF ~r.bound
                THEN /\ pc' = "raised"
                     /\ exc' = "UnboundLocalError"
                     /\ UNCHANGED <<written, cur_grp_i>>
                     /\ UNCHANGED vel_vars
                ELSE /\ pc' = "group"
                     /\ written' = written \cup {"velocity", "param_kinetic"}
                     /\ cur_grp_i' = cur_grp_i + 1
                     /\ params' = r.fit
                     /\ vel' = r.vel
                     /\ vel_U' = r.vel_U
                     /\ vel_S' = r.vel_S
                     /\ vel_N' = r.vel_N
                     /\ vel_T' = r.vel_T
                     /\ UNCHANGED exc
    /\ UNCHANGED rec_vars
    /\ UNCHANGED <<pp, kw, valid_bools, model, model_was_auto, assumption_mRNA,
                   est_method, assump_mRNA, slope, valid_gene_checker, valid_bools_,
                   subset_genes, filtered, adata_layers, moments_calls,
                   sanity_check_col, est_calls>>
    /\ UNCHANGED km_vars

\* line 742: `group in adata.obs[group]` looks adata.obs[group] up (KeyError
\* when group is no column) and tests group against the labels of its index
UnsKey(group) ==
    IF group = "None" THEN "dynamics"
    ELSE IF group \notin ObsColumns THEN "KeyError"
    ELSE IF group \in ObsIndex THEN "group_dynamics"
    ELSE "dynamics"

\* After the group loop: the key of the run-metadata record,
\* use_for_dynamics and the record.
D_Finish ==
    /\ pc = "group"
    /\ cur_grp_i = kw.n_groups
    /\ IF UnsKey(kw.group) = "KeyError"
       THEN /\ pc' = "raised"
            /\ exc' = "KeyError: adata.obs[group]"
            /\ UNCHANGED <<written, uns>>
       ELSE /\ pc' = "done"
            /\ written' = written \cup {"use_for_dynamics", "uns"}
            /\ uns' = [key |-> UnsKey(kw.group), model |-> model,
                       asspt_mRNA |-> assumption_mRNA, est_method |-> est_method]
            /\ UNCHANGED exc
    /\ UNCHANGED <<selections, X_genes, Kc>>
    /\ UNCHANGED vel_vars
    /\ UNCHANGED <<pp, kw, valid_bools, model, model_was_auto, assumption_mRNA,
                   est_method, assump_mRNA, cur_grp_i, slope, valid_gene_checker,
                   valid_bools_, subset_genes, filtered, adata_layers, moments_calls,
                   sanity_check_col, est_calls>>
    /\ UNCHANGED km_vars

NextDyn ==
    \/ D_Start
    \/ D_Group
    \/ D_Resolve
    \/ D_SteadyState
    \/ D_KineticCall
    \/ D_KineticDone
    \/ D_Finish
    \/ KM_Setup
    \/ KM_FitGene
    \/ KM_Return

\* ------------------------------------------------------------------------
\* Specifications
\* ------------------------------------------------------------------------
\* strings a caller can give for model, assumption_mRNA and est_method
ModelArgs == {"auto", "Auto", "deterministic", "stochastic"}
AssumptionArgs == {"auto", "Auto", "ss", "kinetic", "model_selection"}
EstMethodArgs == {"auto", "Auto", "ols", "twostep", "direct"}

\* has_splicing and splicing_labeling as the preprocessing sets them
SplicingFlags == {<<FALSE, FALSE>>, <<TRUE, FALSE>>, <<TRUE, TRUE>>}

\* the genes of adata and those that pass the filter
FilterMask(n, passing) == [g \in 1..n |-> g \in passing]

\* the state of dynamics before its first statement
DynFresh(p, k, vb, m, asm, em, layers) ==
    /\ pp = p
    /\ kw = k
    /\ valid_bools = vb
    /\ exc = "none"
    /\ model = m
    /\ model_was_auto = FALSE
    /\ assumption_mRNA = asm
    /\ est_method = em
    /\ assump_mRNA = "none"
    /\ cur_grp_i = 0
    /\ slope = <<>>
    /\ valid_gene_checker = <<>>
    /\ valid_bools_ = <<>>
    /\ subset_genes = <<>>
    /\ filtered = -1
    /\ adata_layers = layers
    /\ moments_calls = 0
    /\ sanity_check_col = <<>>
    /\ written = {}
    /\ est_calls = <<>>
    /\ params = NoParameters
    /\ vel = NoParameters
    /\ vel_U = NotAssigned
    /\ vel_S = NotAssigned
    /\ vel_N = NotAssigned
    /\ vel_T = NotAssigned
    /\ selections = <<>>
    /\ X_genes = [first |-> <<>>, second |-> <<>>]
    /\ Kc = <<>>
    /\ uns = NoUns

\* no kinetic_model call is running
KMIdle ==
    /\ call = NoCall
    /\ km_pc = "idle"
    /\ km_exc = "none"
    /\ layers_sel = {}
    /\ X_defined = FALSE
    /\ _param_ranges = <<>>
    /\ x0 = <<>>
    /\ Est = [cls |-> "None", obj |-> 0]
    /\ estimators = <<>>
    /\ i_gene = 0
    /\ fits = <<>>
    /\ cost = <<>>
    /\ half_life = <<>>
    /\ logLL = <<>>
    /\ Estm_df = <<>>

\* dynamics has just been entered
DynEntered(p, k, vb, m, asm, em, layers) ==
    DynFresh(p, k, vb, m, asm, em, layers) /\ pc = "start"

\* kinetic_model is run on its own, not from dynamics
DynIdle ==
    DynFresh([experiment_type |-> "none", has_splicing |-> FALSE,
                splicing_labeling |-> FALSE],
               [use_smoothed |-> FALSE, re_smooth |-> FALSE, sanity_check |-> FALSE,
                NTR_vel |-> FALSE, group |-> "None", model |-> "none", n_groups |-> 0],
               <<>>, "none", "none", "none", {})
    /\ pc = "idle"

\* kinetic_model called directly, with every combination of arguments
InitKM == DynIdle /\ \E c \in Calls : Entered(c)

SpecKM == InitKM /\ [][NextKM]_vars

\* dynamics without the sanity check, over every experiment type and every
\* way of giving model, assumption_mRNA and est_method
Init ==
    /\ KMIdle
    /\ \E et \in ExperimentTypes, sp \in SplicingFlags, us \in BOOLEAN,
          ng \in 1..MaxGroups, m \in ModelArgs, asm \in AssumptionArgs,
          em \in EstMethodArgs, passing \in {{}, 1..MaxGenes},
          layers \in {AllX, AllX \cup AllM}, rs \in BOOLEAN, ntr \in BOOLEAN,
          group \in GroupArgs :
         /\ group \notin ObsColumns => ng = 1
         /\ DynEntered([experiment_type |-> et, has_splicing |-> sp[1],
                     splicing_labeling |-> sp[2]],
                    [use_smoothed |-> us, re_smooth |-> rs, sanity_check |-> FALSE,
                     NTR_vel |-> ntr, group |-> group, model |-> m, n_groups |-> ng],
                    FilterMask(MaxGenes + 1, passing), m, asm, em, layers)

Spec == Init /\ [][NextDyn]_vars

\* dynamics with the sanity check on kin and deg data: adata has one gene
\* fewer than MinValidGenes, or MinValidGenes genes, of which up to MaxGenes
\* pass the gene filter
InitSanity ==
    /\ KMIdle
    /\ \E et \in {"kin", "deg"}, sp \in SplicingFlags, us \in BOOLEAN,
          ng \in 1..MaxGroups, m \in {"auto", "deterministic"},
          asm \in {"ss", "kinetic", "model_selection"}, em \in {"auto", "twostep"},
          n \in {MinValidGenes - 1, MinValidGenes},
          passing \in {{2}, 2..(MaxGenes + 1)} :
         DynEntered([experiment_type |-> et, has_splicing |-> sp[1],
                     splicing_labeling |-> sp[2]],
                    [use_smoothed |-> us, re_smooth |-> FALSE, sanity_check |-> TRUE,
                     NTR_vel |-> FALSE, group |-> IF ng > 1 THEN "cell_type" ELSE "None",
                     model |-> m, n_groups |-> ng],
                    FilterMask(n, passing), m, asm, em, AllX \cup AllM)

SpecSanity == InitSanity /\ [][NextDyn]_vars

\* ------------------------------------------------------------------------
\* Properties
\* ------------------------------------------------------------------------
\* errors that report an unimplemented model or experiment
Unimplemented == {"NotImplementedError", "Exception: not implemented"}

\* C1: at every call of ss_estimation or kinetic_model made by dynamics, none
\* of model, assumption_mRNA and est_method is 'auto' in any letter case.
C1_AutoResolvedBeforeFit ==
    \A k \in 1..Len(est_calls) :
        /\ Lower(est_calls[k].model) # "auto"
        /\ Lower(est_calls[k].assumption_mRNA) # "auto"
        /\ Lower(est_calls[k].est_method) # "auto"

\* the model strings each branch of kinetic_model has an arm for
BranchModels(experiment_type) ==
    CASE experiment_type = "kin" ->
           {"deterministic", "stochastic", "mixture", "mixture_deterministic_stochastic",
            "mixture_stochastic_stochastic"}
      [] experiment_type = "deg" -> {"deterministic", "stochastic"}
      [] experiment_type = "mix_pulse_chase" -> {"deterministic"}
      [] OTHER -> {}

\* the running call names a model its (experiment_type, splicing) branch
\* does not support
UnsupportedModelCall ==
    /\ km_pc \in {"loop", "returned", "raised"}
    /\ call.experiment_type \in {"kin", "deg", "mix_pulse_chase"}
    /\ Lower(call.model) \notin BranchModels(call.experiment_type)

\* C2 as stated: a call with an unsupported model string ends with an
\* unimplemented-model error and fits no gene, for every est_method.
C2_UnsupportedModelRaises ==
    UnsupportedModelCall =>
        km_pc = "raised" /\ km_exc \in Unimplemented /\ fits = <<>>

\* C2 amended: a call with an unsupported model string never fits a gene;
\* for kin with est_method 'direct', and for deg and mix_pulse_chase with
\* every est_method, it ends with an unimplemented-model error; for kin with
\* est_method 'twostep' the model string is not consulted and the call
\* returns (or ends with the KeyError of a missing layer); for kin with any
\* other est_method it ends with an UnboundLocalError.
C2_UnsupportedModelAmended ==
    UnsupportedModelCall =>
        /\ fits = <<>>
        /\ km_pc # "loop"
        /\ IF call.experiment_type = "kin" /\ call.est_method = "twostep"
           THEN km_exc \in {"none", "KeyError"}
           ELSE IF call.experiment_type = "kin" /\ call.est_method # "direct"
           THEN km_pc = "raised" /\ km_exc = "UnboundLocalError"
           ELSE km_pc = "raised" /\ km_exc \in Unimplemented

\* C2 witness: a mix_pulse_chase call with est_method 'twostep' and the
\* stochastic model has ended with NotImplementedError.
C2_Witness ==
    /\ UnsupportedModelCall
    /\ call.experiment_type = "mix_pulse_chase"
    /\ call.est_method = "twostep"
    /\ call.model = "stochastic"
    /\ km_pc = "raised"
    /\ km_exc = "NotImplementedError"

\* genes were estimated or something estimated was stored
EstimatedOrStored ==
    \/ \E k \in 1..Len(est_calls) : est_calls[k].fn = "ss_estimation"
    \/ fits # <<>>
    \/ written \cap {"velocity", "param_ss", "param_kinetic"} # {}

\* C3 as stated: a run on mix_std_stm, pulse_time_series or dual_labeling
\* data fits no estimator, stores no parameter or velocity, and ends with
\* an unimplemented-model error, whatever assumption_mRNA and model are.
C3_UnsupportedExperimentFails ==
    pp.experiment_type \in {"mix_std_stm", "pulse_time_series", "dual_labeling"} =>
        /\ ~EstimatedOrStored
        /\ pc # "done"
        /\ (pc = "raised" /\ exc # "Exception: no genes pass filter"
               => exc \in Unimplemented)

\* C3 amended: a run on pulse_time_series or dual_labeling data whose
\* resolved assumption_mRNA is 'kinetic' fits no estimator, stores no
\* parameter or velocity, and ends with the unimplemented error of
\* kinetic_model; a run on mix_std_stm data, and a run on the other two
\* under the steady-state assumption, takes the steady-state branch: when it
\* completes, ss_estimation has been called for every group.
C3_UnsupportedExperimentAmended ==
    /\ (pp.experiment_type \in {"pulse_time_series", "dual_labeling"}
          /\ Lower(assumption_mRNA) = "kinetic") =>
            /\ ~EstimatedOrStored
            /\ pc # "done"
            /\ (pc = "raised" /\ exc # "Exception: no genes pass filter"
                   => exc = "Exception: not implemented")
    /\ (pc = "done"
          /\ (pp.experiment_type = "mix_std_stm"
                \/ (pp.experiment_type \in {"pulse_time_series", "dual_labeling"}
                      /\ Lower(assumption_mRNA) = "ss"))) =>
            /\ Len(est_calls) = kw.n_groups
            /\ \A k \in 1..Len(est_calls) : est_calls[k].fn = "ss_estimation"

\* C3 witness: a dual_labeling run given assumption_mRNA 'auto', resolved to
\* 'kinetic', has ended with the unimplemented error of kinetic_model.
C3_Witness ==
    /\ pp.experiment_type = "dual_labeling"
    /\ assumption_mRNA = "kinetic"
    /\ assump_mRNA = "kinetic"
    /\ Len(est_calls) = 1
    /\ pc = "raised"
    /\ exc = "Exception: not implemented"

\* the call has selected its layers and goes on to fit with them
FitsWithSelection == km_pc \in {"loop", "returned"}

\* C4: the layers one kinetic_model call selects for its fit are all
\* smoothed or all raw.
C4_NoMixedLayers ==
    FitsWithSelection =>
        \/ \A l \in layers_sel : IsSmoothedLayer(l)
        \/ \A l \in layers_sel : IsRawLayer(l)

\* C5: no estimator object fits two genes.
C5_OwnEstimatorPerGene ==
    \A i, j \in 1..Len(fits) : i # j => fits[i].obj # fits[j].obj

\* the direct (non-twostep) kin, deg or mix_pulse_chase call is in or past
\* its gene loop
InOrPastLoop ==
    /\ km_pc \in {"loop", "returned", "raised"}
    /\ ResolveModel(call).exc = "none"
    /\ ~ResolveModel(call).ret

\* C6: in and after the gene loop the parameter-range table is what it was
\* when the loop started.
C6_RangesReadOnly ==
    InOrPastLoop =>
        _param_ranges = update_dict(ResolveModel(call).ranges, call.param_rngs)

\* position of the transcription-rate parameter in a range table
AlphaPosition(ranges) ==
    CHOOSE i \in 1..Len(ranges) :
        ranges[i][1] = (IF DictHas(ranges, "alpha") THEN "alpha" ELSE "alpha_a")

\* C7: in a kin direct non-mixture call every gene's estimator is built
\* with as many ranges as the registry has, the transcription rate's being
\* [0, 10 * alpha0] of that gene.
C7_AlphaRangePerGene ==
    (InOrPastLoop /\ call.experiment_type = "kin"
        /\ ~StartsWithMixture(Lower(call.model))) =>
        \A k \in 1..Len(fits) :
            LET registry == ResolveModel(call).ranges
            IN  /\ Len(fits[k].ranges) = Len(registry)
                /\ fits[k].ranges[AlphaPosition(registry)]
                     = <<0, AlphaScale * fits[k].alpha0>>

\* C8: a gene whose fit failed has its output recorded and the loop went on
\* to the next gene.
C8_FitFailureDoesNotAbort ==
    \A k \in 1..Len(fits) :
        fits[k].outcome # "ok" => Len(cost) > fits[k].gene /\ km_exc # "FitError"

\* the sanity check has run in the current group
SanityCheckRan == filtered # -1

\* C9: when the sanity check leaves fewer than 5 valid genes the run has
\* been aborted, before any estimation in that group.
C9_AbortsBelowFiveValid ==
    (SanityCheckRan /\ CountTrue(valid_gene_checker) < MinValidGenes) =>
        pc = "raised" /\ exc = "Exception: less than 5 valid genes"

\* the sign the declared experiment requires of a gene's slope
RequiredSign(sl) ==
    IF pp.experiment_type = "kin" THEN sl > 0
    ELSE IF pp.experiment_type = "deg" THEN sl < 0
    ELSE FALSE

\* the k-th filter-passing gene
PassingGene(k) == Where(valid_bools, 1)[k]

InSeq(x, seq) == \E i \in 1..Len(seq) : seq[i] = x

C11_NoGenesLeavesContainer ==
    /\ [](pc # "start" /\ pc # "idle" /\ CountTrue(valid_bools) = 0 =>
             /\ pc = "raised"
             /\ exc = "Exception: no genes pass filter"
             /\ moments_calls = 0
             /\ written = {}
             /\ est_calls = <<>>)
    /\ [][pc = "start" /\ CountTrue(valid_bools) = 0 =>
             adata_layers' = adata_layers]_vars

\* C11 witness: with re_smooth on and smoothed layers in storage, a run with
\* no passing gene has raised and the smoothed layers are still there.
C11_Witness ==
    /\ pc = "raised"
    /\ exc = "Exception: no genes pass filter"
    /\ kw.re_smooth
    /\ AllM \subseteq adata_layers

\* the experiment types kinetic_model and dynamics have a branch for
RecognizedExperimentTypes == ExperimentTypes \ {"unknown"}

\* C12: a run on an experiment type that is not recognized performs no
\* estimation, stores nothing estimated and does not complete.
C12_UnknownExperimentStops ==
    pp.experiment_type \notin RecognizedExperimentTypes /\ pc # "idle" =>
        ~EstimatedOrStored /\ pc # "done"

\* C13: no run completes with a resolved assumption_mRNA that is neither
\* 'ss' nor 'kinetic' on an experiment type other than one-shot and
\* mix_std_stm.
C13_UnknownAssumptionStops ==
    ~(/\ pc = "done"
      /\ Lower(assumption_mRNA) \notin {"ss", "kinetic"}
      /\ Lower(pp.experiment_type) \notin {"one-shot", "mix_std_stm"})

\* C14: every gene's half_life is ln(2) over the estimate that the returned
\* table reports in its gamma column.
C14_HalfLifeFromGamma ==
    /\ km_pc \in {"loop", "returned"} =>
          \A g \in 1..Len(half_life) : half_life[g] = "gamma"
    /\ (km_pc = "returned" /\ Lower(call.experiment_type) = "kin") =>
          DictHas(Estm_df, "gamma") /\ DictGet(Estm_df, "gamma") = "gamma"

\* the running call is a kin call with est_method 'twostep'
KinTwostepCall ==
    /\ km_pc \in {"returned", "raised"}
    /\ Lower(call.experiment_type) = "kin"
    /\ call.est_method = "twostep"

C20_LogLikelihoodFromRaw ==
    \A k \in 1..Len(logLL) : \A l \in logLL[k].observed : IsRawLayer(l)

\* the four velocities of a group have been assigned and stored
Reconstructed == vel_U # NotAssigned

\* the estimation path of the group whose velocities are stored
KineticPath ==
    /\ Reconstructed
    /\ est_calls[Len(est_calls)].fn = "kinetic_model"
    /\ km_pc = "returned"
    /\ pc # "in_kinetic_model"

SteadyStatePath ==
    /\ Reconstructed
    /\ pc \in {"group", "done"}
    /\ est_calls[Len(est_calls)].fn = "ss_estimation"

\* C16: no run ends with an unassigned velocity after its estimation has
\* returned, and whenever velocities have been stored each of vel_U, vel_S,
\* vel_N and vel_T held a value or NaN.
C16_VelocitiesAlwaysAssigned ==
    /\ ~(pc = "raised" /\ exc = "UnboundLocalError" /\ km_pc = "returned")
    /\ "velocity" \in written =>
          NotAssigned \notin {vel_U, vel_S, vel_N, vel_T}

\* C17: whenever velocities have been stored for data without splicing,
\* vel_U and vel_S are NaN.
C17_NoSplicingNaN ==
    (Reconstructed /\ "velocity" \in written /\ ~pp.has_splicing) =>
        (vel_U = NaN /\ vel_S = NaN)

\* C18 as stated: in a kin run with NTR_vel on, the stored total velocity
\* is the one rescaled by the effective gamma, on either path.
C18_KinTotalRescaled ==
    (Reconstructed /\ pp.experiment_type = "kin" /\ kw.NTR_vel) =>
        vel_T.fn = EffectiveGamma

\* C18 amended: in a kin run with NTR_vel on, the stored total velocity is
\* the one rescaled by the effective gamma on the steady-state path; on
\* the kinetic path it is vel_u of the total layer with the fitted gamma
\* in the place of beta (splicing) or with the cell-wise alpha (no
\* splicing), and is not rescaled.
C18_KinTotalRescaledSteadyState ==
    /\ (SteadyStatePath /\ pp.experiment_type = "kin" /\ kw.NTR_vel) =>
          /\ vel_T.fn = EffectiveGamma
          /\ vel_T.args = <<"U", "S">>
          /\ vel_T.p = EstParameters
    /\ (KineticPath /\ pp.experiment_type = "kin" /\ kw.NTR_vel) =>
          /\ vel_T.fn = "vel_u"
          /\ vel_T.args = <<"S">>
          /\ vel_T.p = vel
          /\ pp.has_splicing => vel.beta = params.gamma

\* C18 witness: a kin run under the steady-state assumption with NTR_vel on
\* has stored its rescaled total velocity.
C18_Witness ==
    /\ SteadyStatePath
    /\ pp.experiment_type = "kin"
    /\ kw.NTR_vel
    /\ pp.has_splicing
    /\ vel_T.fn = EffectiveGamma
    /\ vel_T.args = <<"U", "S">>

KinDirectFit ==
    /\ Lower(call.experiment_type) = "kin"
    /\ Lower(call.model) \in {"deterministic", "stochastic"}

\* C22: in a kin fit with the deterministic or stochastic model, an
\* estimator whose class accepts x0 is constructed with the resolved
\* initial-condition ranges.
C22_X0RangesHanded ==
    KinDirectFit =>
        \A k \in 1..Len(fits) : fits[k].accepts_x0 => fits[k].x0 = DictValues(x0)

\* C23: in a deg call every fit is handed the resolved parameter-range
\* table.
C23_DegFitUsesRanges ==
    Lower(call.experiment_type) = "deg" =>
        \A k \in 1..Len(fits) : fits[k].ranges = DictValues(_param_ranges)

\* C29: in a kin direct call the rough alpha estimate and the species
\* scored treat the data as spliced exactly when the resolved model is a
\* splicing model (has_splicing and splicing_labeling).
C29_SplicingDecisionConsistent ==
    (Lower(call.experiment_type) = "kin" /\ call.est_method = "direct") =>
        LET splicing_model == call.has_splicing /\ call.splicing_labeling
        IN  /\ KinDirectFit =>
                  \A k \in 1..Len(fits) : fits[k].spliced = splicing_model
            /\ \A k \in 1..Len(logLL) :
                  logLL[k].species # <<>> =>
                      logLL[k].species = IF splicing_model THEN <<0, 1, 2, 3>> ELSE <<0, 1>>

\* C21: when the run-metadata record is stored, every smoothing decision,
\* every data selection and every estimation of the run was made under the
\* recorded model, and every estimation under the recorded assumption and
\* est_method.
C21_MetadataMatchesRun ==
    pc = "done" =>
        /\ \A k \in 1..Len(selections) : selections[k].model = uns.model
        /\ \A k \in 1..Len(est_calls) :
              /\ est_calls[k].model = uns.model
              /\ est_calls[k].assumption_mRNA = uns.asspt_mRNA
              /\ est_calls[k].est_method = uns.est_method

\* the pair fetched by get_U_S_for_velocity_estimation with its NTR flag
\* off: (U, S) when NTR_vel is off, (U_, S_) when it is on
SplicingPair == IF kw.NTR_vel THEN <<"U_", "S_">> ELSE <<"U", "S">>

\* C24: a stored vel_S that is not NaN is vel_s of the unspliced / spliced
\* pair under the fitted parameters; on the kinetic path for kin with
\* splicing vel_U, vel_S and vel_N are computed under the fitted parameters
\* and only vel_T under beta replaced by gamma.
C24_SplicedVelocityConsistent ==
    /\ (Reconstructed /\ vel_S # NaN) =>
          /\ vel_S.fn = "vel_s"
          /\ vel_S.args = SplicingPair
          /\ vel_S.p = params
    /\ (KineticPath /\ pp.experiment_type = "kin" /\ pp.has_splicing) =>
          /\ vel_U.p = params /\ vel_S.p = params /\ vel_N.p = params
          /\ vel_T.p = [params EXCEPT !.beta = params.gamma]

\* C25: at every rescaling of vel_T the clipped gamma Kc is not zero and the
\* argument 1 - Kc of the logarithm is at least 1e-3.
C25_RescalingWellDefined ==
    \A k \in 1..Len(Kc) : Kc[k].Kc # 0 /\ (KcMax + 1) - Kc[k].Kc >= 1

\* (U, S) and (U_, S_) exchanged in the arguments of a velocity
Exchange(x) ==
    CASE x = "U" -> "U_"
      [] x = "U_" -> "U"
      [] x = "S" -> "S_"
      [] x = "S_" -> "S"
      [] x = "S - U" -> "S_ - U_"
      [] x = "S_ - U_" -> "S - U"
      [] OTHER -> x

\* the formula of a velocity with the layers exchanged
Exchanged(v) == <<v.fn, [i \in 1..Len(v.args) |-> Exchange(v.args[i])]>>

\* C26: the stored velocities are the formulas the other value of NTR_vel
\* gives with (U, S) and (U_, S_) exchanged, and a vel_U that is not NaN is
\* vel_u of the unspliced layer.
C26_NTRExchangesPairs ==
    Reconstructed =>
        LET other == IF est_calls[Len(est_calls)].fn = "kinetic_model"
                     THEN ReconstructKinetic(pp.experiment_type, pp.has_splicing,
                                             ~kw.NTR_vel, params)
                     ELSE ReconstructSS(pp.experiment_type, pp.has_splicing,
                                        ~kw.NTR_vel, params)
        IN  /\ vel_U # NaN => (vel_U.fn = "vel_u" /\ vel_U.args = <<SplicingPair[1]>>)
            /\ <<vel_U.fn, vel_U.args>> = Exchanged(other.vel_U)
            /\ <<vel_S.fn, vel_S.args>> = Exchanged(other.vel_S)
            /\ <<vel_N.fn, vel_N.args>> = Exchanged(other.vel_N)
            /\ <<vel_T.fn, vel_T.args>> = Exchanged(other.vel_T)

\* the model C27 names for a model argument, an experiment type and the
\* estimator called
NamedModel(model_arg, experiment_type, fn) ==
    CASE Lower(model_arg) = "auto" ->
           (CASE experiment_type = "kin" ->
                   (IF fn = "kinetic_model" THEN "mixture" ELSE "deterministic")
              [] experiment_type = "deg" -> "deterministic"
              [] experiment_type \in {"conventional", "one-shot"} -> "stochastic"
              [] OTHER -> "deterministic")
      [] model_arg = "stochastic" ->
           (IF experiment_type \in {"conventional", "kin", "deg", "one-shot"}
            THEN "stochastic" ELSE "deterministic")
      [] OTHER -> model_arg

\* C27: every estimator call of a run is made with the model C27 names for
\* the model argument, the experiment type and the estimation path.
C27_ModelResolution ==
    \A k \in 1..Len(est_calls) :
        est_calls[k].model = NamedModel(kw.model, pp.experiment_type, est_calls[k].fn)

\* C27 witness: the second group of a kin run with model 'auto' under the
\* kinetic assumption has been handed to kinetic_model with the mixture
\* model.
C27_Witness ==
    /\ Len(est_calls) = 2
    /\ Lower(kw.model) = "auto"
    /\ pp.experiment_type = "kin"
    /\ est_calls[2].fn = "kinetic_model"
    /\ est_calls[2].model = "mixture"
    /\ est_calls[2].grp = 1

\* C28: when ss_estimation has been called for a group the sanity check
\* removed genes from, the first- and the second-moment matrices it was
\* handed cover the genes of valid_bools_, in order.
C28_MatricesCoverValidGenes ==
    (/\ pc \in {"group", "done"}
     /\ est_calls # <<>>
     /\ est_calls[Len(est_calls)].fn = "ss_estimation"
     /\ kw.sanity_check
     /\ filtered > 0) =>
        /\ X_genes.first = Where(valid_bools_, 1)
        /\ X_genes.second # <<>> => X_genes.second = Where(valid_bools_, 1)

\* C30: a run whose group is given but is no column of adata.obs does not
\* end with the KeyError of the lookup adata.obs[group]; when it has
\* stored its record, the record is under 'dynamics' and one group was
\* processed.
C30_MissingGroupCompletes ==
    (kw.group # "None" /\ kw.group \notin ObsColumns) =>
        /\ exc # "KeyError: adata.obs[group]"
        /\ pc = "done" => (uns.key = "dynamics" /\ kw.n_groups = 1)

====
